---- MODULE Spec2Model ----
(***************************************************************************)
(* The annotation editor of the 4CAT explorer page                         *)
(* (webtool/static/js/explorer.js and its second copy): the save control   *)
(* of the per-item annotations, the field editor's validation and the      *)
(* reconciliation of the rendered widgets with an edited schema.           *)
(***************************************************************************)
EXTENDS Integers, Sequences, FiniteSets, TLC

VARIABLES
    variant,       \* which copy of the script the page runs
    posts,         \* the rendered items (.posts > li), each with its widgets
    disabled,      \* #save-annotations carries the class "disabled"
    msg,           \* the text of #save-annotations
    edits_made,    \* the closure variable of annotations.init
    inflight,      \* save_annotations requests issued and not yet answered
    navigated,     \* a pagination link was followed: the page is unloading
    unsaved,       \* history: widgets whose latest edit no answered save holds
    editInFlight,  \* history: an edit happened while a request was outstanding
    loadDisabled,  \* history: the save control was disabled at page load
    edited,        \* history: an edit event happened since page load
    editSinceSave, \* history: an edit event happened since the last success
    saved,         \* history: saveAnnotations issued a request since page load
    ev,            \* history: the last event and what its handler did
    editor,        \* the rows of the field editor (#annotation-fields-editor)
    parsed,        \* what parseAnnotationFields returned last
    warn,          \* the warning #input-warning shows
    fieldReqs,     \* save_annotation_fields requests not yet answered
    toggle,        \* #toggle-annotations: its classes disabled and shown
    applyCtl,      \* #apply-annotation-fields disabled, editor container hidden
    serverFields,  \* annotation_fields as the server put it into the page
    reloaded,      \* location.reload() was called: the document is going away
    applied,       \* history: what the last applyAnnotationFields did
    group,         \* the option inputs of one row of the editor, in order
    rowType,       \* what that row's type selector shows
    lastOp         \* history: the last operation on that row

saveVars == <<posts, disabled, msg, edits_made, inflight, navigated,
              unsaved, editInFlight, loadDisabled, edited, editSinceSave, saved,
              ev>>
editVars == <<editor, parsed>>
applyVars == <<warn, fieldReqs, toggle, applyCtl, serverFields, reloaded, applied>>
optVars == <<group, rowType, lastOp>>
vars == <<variant, saveVars, editVars, applyVars, optVars>>

(***************************************************************************)
(* Bounds of the model.                                                    *)
(***************************************************************************)
NItems == 1
MaxInFlight == 2
MaxFields == 2
MaxOpts == 2
NApplyItems == 2
MaxFieldReqs == 1
MaxGroup == 3

Variants == {"explorer", "part_000"}

(***************************************************************************)
(* Strings the code takes apart or puts together are kept as a prefix and  *)
(* a rest: "field-" + id is Tok("field-", id), a bare class is Tok("", c). *)
(***************************************************************************)
Tok(p, s) == [p |-> p, s |-> s]

\* "x".replace(prefix, ""): only a token that holds the prefix loses it
StripPrefix(t, p) == IF t.p = p THEN Tok("", t.s) ELSE t

ItemName == <<"41", "42", "43", "44">>
Items == 1..NItems

TextTypes == {"text", "textarea"}
OptionTypes == {"dropdown", "checkbox"}
FieldTypes == TextTypes \cup OptionTypes

TextVals == {"", "a"}

\* JavaScript's undefined, as a value of an annotation
Undefined == [k |-> "undefined"]
StrVal(s) == [k |-> "string", s |-> s]
ListVal(l) == [k |-> "list", l |-> l]

(***************************************************************************)
(* The widgets the server renders for one item: a .post-annotation div     *)
(* with the classes field-{field_id} type-{type} item-id-{item_id}.        *)
(***************************************************************************)
NoOpt == <<>>

ServerOption(item, fid, o) ==
    [cls |-> <<Tok("", "post-annotation-input"), Tok("field-", fid),
               Tok("option-", o.id)>>,
     hasId |-> TRUE, value |-> o.label, text |-> o.label,
     sel |-> FALSE, edited |-> FALSE]

EmptyOption ==
    [cls |-> <<Tok("", "post-annotation-input")>>,
     hasId |-> FALSE, value |-> "", text |-> "",
     sel |-> TRUE, edited |-> FALSE]

ServerWidget(item, fid, def) ==
    [cls |-> <<Tok("", "post-annotation"), Tok("field-", fid),
               Tok("type-", def.type), Tok("item-id-", ItemName[item])>>,
     label |-> def.label,
     ctl |-> CASE def.type = "text" -> "input"
               [] def.type = "textarea" -> "textarea"
               [] def.type = "dropdown" -> "select"
               [] OTHER -> "checkboxes",
     icls |-> <<Tok("", "post-annotation-input"), Tok("field-", fid)>>,
     val |-> "", edited |-> FALSE,
     opts |-> IF def.type \in TextTypes THEN NoOpt
              ELSE (IF def.type = "dropdown" THEN <<EmptyOption>> ELSE <<>>)
                   \o [j \in 1..Len(def.options) |->
                         ServerOption(item, fid, def.options[j])]]

\* a schema is a sequence of fields, in the order of the mapping's keys
ServerPost(item, schema) ==
    [id |-> ItemName[item],
     anns |-> [k \in 1..Len(schema) |->
                 ServerWidget(item, schema[k].id, schema[k].def)]]

ServerPage(schema) == [i \in Items |-> ServerPost(i, schema)]

\* the fields of the page whose annotations are saved
SaveSchema ==
    <<[id |-> "f1", def |-> [type |-> "text", label |-> "Notes"]],
      [id |-> "f2", def |-> [type |-> "checkbox", label |-> "Tags",
                             options |-> <<[id |-> "o1", label |-> "x"]>>]]>>

Widgets == {<<i, k>> : i \in Items, k \in 1..Len(SaveSchema)}

(***************************************************************************)
(* parseAnnotation: one rendered widget to an annotation record.  A read   *)
(* of a class token that is not there is undefined, and .replace on it     *)
(* throws a TypeError.                                                     *)
(***************************************************************************)
Thrown == [throws |-> TRUE]

\* the value of the first element the selector .post-annotation-input finds
FirstInputVal(w) ==
    IF w.ctl \in {"input", "textarea"} THEN StrVal(w.val)
    ELSE IF Len(w.opts) > 0 THEN StrVal(w.opts[1].value) ELSE Undefined

\* the value of the select: its selected option's value
SelectVal(w) ==
    IF w.ctl = "select" /\ \E j \in 1..Len(w.opts) : w.opts[j].sel
    THEN StrVal(w.opts[CHOOSE j \in 1..Len(w.opts) : w.opts[j].sel].value)
    ELSE Undefined

\* the first element .post-annotation-input finds has these classes
FirstInputClasses(w) ==
    IF w.ctl \in {"input", "textarea"} THEN w.icls
    ELSE IF Len(w.opts) > 0 THEN w.opts[1].cls ELSE <<>>

ParseAnnotationExplorer(w) ==
    IF Len(w.cls) < 4 THEN Thrown
    ELSE LET type == StripPrefix(w.cls[3], "type-")
             val == IF type \in {Tok("", "text"), Tok("", "textarea")}
                       THEN FirstInputVal(w)
                    ELSE IF type = Tok("", "dropdown") THEN SelectVal(w)
                    \* the loop asks the widget's div, never the input,
                    \* whether it is checked: the list stays empty
                    ELSE Undefined
         IN [throws |-> FALSE,
             field_id |-> StripPrefix(w.cls[2], "field-"),
             item_id |-> StripPrefix(w.cls[4], "item-id-"),
             label |-> w.label, type |-> type, value |-> val]

ParseAnnotationPart000(w) ==
    IF Len(FirstInputClasses(w)) < 2 \/ Len(w.cls) < 4 THEN Thrown
    ELSE LET type == StripPrefix(w.cls[3], "type-")
             val == IF type \in {Tok("", "text"), Tok("", "textarea")}
                       THEN FirstInputVal(w)
                    \* the select is looked for inside the inputs
                    ELSE Undefined
         IN [throws |-> FALSE,
             field_id |-> StripPrefix(FirstInputClasses(w)[2], "field-"),
             item_id |-> StripPrefix(w.cls[4], "item-id-"),
             label |-> w.label, type |-> type, value |-> val]

ParseAnnotation(v, w) ==
    IF v = "explorer" THEN ParseAnnotationExplorer(w)
    ELSE ParseAnnotationPart000(w)

RECURSIVE Flatten(_)
Flatten(ss) == IF ss = <<>> THEN <<>> ELSE Head(ss) \o Flatten(Tail(ss))

WasEdited(w) == w.edited \/ \E n \in 1..Len(w.opts) : w.opts[n].edited

\* a fault: only the widgets that carry the class edited are collected
CollectEditedOnly(v, page) ==
    LET per == [i \in 1..Len(page) |->
                  LET ws == SelectSeq(page[i].anns, WasEdited)
                  IN [k \in 1..Len(ws) |-> ParseAnnotation(v, ws[k])]]
        all == Flatten(per)
    IN IF \E n \in 1..Len(all) : all[n].throws THEN Thrown
       ELSE [throws |-> FALSE, anns |-> all]

\* the loop of saveAnnotations over every item's widgets
CollectAnnotations(v, page) ==
    LET per == [i \in 1..Len(page) |->
                  [k \in 1..Len(page[i].anns) |->
                     ParseAnnotation(v, page[i].anns[k])]]
        all == Flatten(per)
    IN IF \E n \in 1..Len(all) : all[n].throws THEN Thrown
       ELSE [throws |-> FALSE, anns |-> all]

(***************************************************************************)
(* The save control.                                                       *)
(***************************************************************************)
MsgSave == "Save annotations"
MsgSaving == "Saving annotations"
MsgSaved == "Annotations saved"

Triggers == {"click", "page", "timer"}

Event(kind, issued, outcome, alert) ==
    [kind |-> kind, issued |-> issued, outcome |-> outcome, alert |-> alert,
     wasDisabled |-> disabled, hadEdits |-> edits_made,
     hadUnsaved |-> unsaved # {}, sinceSave |-> editSinceSave,
     edited |-> edited, pending |-> Len(inflight), hadSaved |-> saved,
     hadUnsent |-> \E w \in unsaved :
                      \A n \in 1..Len(inflight) : w \notin inflight[n].covered,
     prevOutcome |-> ev.outcome]

SaveInit ==
    /\ posts = ServerPage(SaveSchema)
    /\ disabled \in BOOLEAN
    /\ loadDisabled = disabled
    /\ msg = MsgSave
    /\ edits_made = FALSE
    /\ inflight = <<>>
    /\ navigated = FALSE
    /\ unsaved = {}
    /\ editInFlight = FALSE
    /\ edited = FALSE
    /\ editSinceSave = FALSE
    /\ saved = FALSE
    /\ ev = [kind |-> "load", issued |-> FALSE, outcome |-> "", alert |-> FALSE,
             wasDisabled |-> disabled, hadEdits |-> FALSE, hadUnsaved |-> FALSE,
             sinceSave |-> FALSE, edited |-> FALSE, pending |-> 0,
             hadUnsent |-> FALSE, hadSaved |-> FALSE, prevOutcome |-> ""]

NotParsed == [kind |-> "none"]

\* the texts of #input-warning; a reserved label is part of its warning
Warn(w, label) == [w |-> w, label |-> label]
NoWarning == Warn("", <<>>)
WarnEmpty == Warn("Field labels can't be empty", <<>>)
WarnUnique == Warn("Field labels must be unique", <<>>)
WarnReserved(label) == Warn("Field label is already present as a dataset item", label)
WarnOptionUnique == Warn("Fields must be unique", <<>>)
WarnNoOption == Warn("At least one field must be added", <<>>)

NotApplied ==
    [kind |-> "none", same |-> TRUE, posted |-> FALSE, shown |-> TRUE,
     resp |-> "none", renderedFrom |-> "none"]

\* the editor's side of the page before anything was applied
ApplyIdle ==
    /\ warn = NoWarning
    /\ fieldReqs = 0
    /\ toggle = [disabled |-> FALSE, shown |-> FALSE]
    /\ applyCtl = [disabled |-> TRUE, hidden |-> FALSE]
    /\ serverFields = SaveSchema
    /\ reloaded = FALSE
    /\ applied = NotApplied

\* a row as addAnnotationField makes it: type text, no option inputs
OptionsIdle ==
    /\ group = <<>>
    /\ rowType = "text"
    /\ lastOp = [kind |-> "none"]

Init ==
    /\ variant \in Variants
    /\ SaveInit
    /\ editor = <<>>
    /\ parsed = NotParsed
    /\ ApplyIdle
    /\ OptionsIdle

\* what the user's edit leaves in the widget
EditText(w, v) == [w EXCEPT !.val = v, !.edited = TRUE]
EditCheckbox(w, j) ==
    [w EXCEPT !.opts[j].sel = ~w.opts[j].sel, !.opts[j].edited = TRUE]

EditedWidgets(w) ==
    IF w.ctl \in {"input", "textarea"} THEN {EditText(w, v) : v \in TextVals}
    ELSE {EditCheckbox(w, j) : j \in 1..Len(w.opts)}

\* keydown or click in a widget: enableSaving(); edits_made = true
EditAnnotation(i, k) ==
    /\ ~navigated
    /\ \E w \in EditedWidgets(posts[i].anns[k]) :
          posts' = [posts EXCEPT ![i].anns[k] = w]
    /\ disabled' = FALSE
    /\ msg' = MsgSave
    /\ edits_made' = TRUE
    /\ unsaved' = unsaved \cup {<<i, k>>}
    /\ inflight' = [n \in 1..Len(inflight) |->
                      [inflight[n] EXCEPT !.covered = @ \ {<<i, k>>}]]
    /\ editInFlight' = (editInFlight \/ inflight # <<>>)
    /\ edited' = TRUE
    /\ editSinceSave' = TRUE
    /\ ev' = Event("edit", FALSE, "", FALSE)
    /\ UNCHANGED <<variant, navigated, loadDisabled, saved>>

\* saveAnnotations: collect, disable the control, post the request
SaveAnnotations ==
    LET c == CollectAnnotations(variant, posts)
    IN IF c.throws
       THEN UNCHANGED <<msg, disabled, inflight>>
       ELSE /\ msg' = MsgSaving
            /\ disabled' = TRUE
            /\ inflight' = Append(inflight,
                                  [anns |-> c.anns, covered |-> unsaved])

Issued == Len(inflight') > Len(inflight)

\* faults of the guards: a click that does not look at the class, a timer
\* that does not, a timer that does not look at edits_made
ClickAlways == TRUE
TimerIgnoresClass == edits_made
TimerIgnoresEdits == ~disabled

\* a fault: the timer never saves
TimerNever == FALSE

\* the guards of the three triggers
ClickAllowed == ~disabled
PageAllowed == ~disabled
TimerAllowed == ~disabled /\ edits_made

\* a request more fits the model's bound
Room(allowed) == allowed => Len(inflight) < MaxInFlight

SaveClick ==
    /\ ~navigated
    /\ Room(ClickAllowed)
    /\ IF ClickAllowed THEN SaveAnnotations
       ELSE UNCHANGED <<msg, disabled, inflight>>
    /\ ev' = Event("click", Issued, "", FALSE)
    /\ saved' = (saved \/ Issued)
    /\ UNCHANGED <<variant, posts, edits_made, navigated, unsaved,
                   editInFlight, loadDisabled, edited, editSinceSave>>

PageClick ==
    /\ ~navigated
    /\ Room(PageAllowed)
    /\ IF PageAllowed THEN SaveAnnotations
       ELSE UNCHANGED <<msg, disabled, inflight>>
    /\ navigated' = TRUE
    /\ ev' = Event("page", Issued, "", FALSE)
    /\ saved' = (saved \/ Issued)
    /\ UNCHANGED <<variant, posts, edits_made, unsaved,
                   editInFlight, loadDisabled, edited, editSinceSave>>

TimerTick ==
    /\ ~navigated
    /\ Room(TimerAllowed)
    /\ IF TimerAllowed THEN SaveAnnotations
       ELSE UNCHANGED <<msg, disabled, inflight>>
    /\ ev' = Event("timer", Issued, "", FALSE)
    /\ saved' = (saved \/ Issued)
    /\ UNCHANGED <<variant, posts, edits_made, navigated, unsaved,
                   editInFlight, loadDisabled, edited, editSinceSave>>

Outcomes == {"success", "rejected", "error"}

\* a fault: the success callback leaves out addClass("disabled")
SaveResponseStaysEnabled(outcome) ==
    IF outcome = "success"
    THEN [disabled |-> FALSE, msg |-> MsgSaved, alert |-> FALSE]
    ELSE IF outcome = "rejected"
    THEN [disabled |-> FALSE, msg |-> MsgSave, alert |-> TRUE]
    ELSE [disabled |-> FALSE, msg |-> MsgSave, alert |-> FALSE]

\* a fault: the error callback leaves the save control as it finds it
SaveResponseErrorIdle(outcome) ==
    IF outcome = "success"
    THEN [disabled |-> TRUE, msg |-> MsgSaved, alert |-> FALSE]
    ELSE IF outcome = "rejected"
    THEN [disabled |-> FALSE, msg |-> MsgSave, alert |-> TRUE]
    ELSE [disabled |-> disabled, msg |-> msg, alert |-> FALSE]

\* the success and error callbacks of the request of saveAnnotations
SaveResponse(outcome) ==
    IF outcome = "success"
    THEN [disabled |-> TRUE, msg |-> MsgSaved, alert |-> FALSE]
    ELSE IF outcome = "rejected"
    THEN [disabled |-> FALSE, msg |-> MsgSave, alert |-> TRUE]
    ELSE [disabled |-> FALSE, msg |-> MsgSave, alert |-> FALSE]

RemoveAt(s, n) == [m \in 1..(Len(s) - 1) |-> IF m < n THEN s[m] ELSE s[m + 1]]

Respond(n, outcome) ==
    /\ ~navigated
    /\ n \in 1..Len(inflight)
    /\ LET r == SaveResponse(outcome)
       IN /\ disabled' = r.disabled
          /\ msg' = r.msg
          /\ ev' = Event("response", FALSE, outcome, r.alert)
    /\ inflight' = RemoveAt(inflight, n)
    /\ unsaved' = IF outcome = "success" THEN unsaved \ inflight[n].covered
                  ELSE unsaved
    /\ editSinceSave' = (editSinceSave /\ outcome # "success")
    /\ editInFlight' = (editInFlight /\ Len(inflight) > 1)
    /\ UNCHANGED <<variant, posts, edits_made, navigated, loadDisabled, edited,
                   saved>>

\* the next page: a fresh document, the old page's requests are gone
PageLoad ==
    /\ navigated
    /\ posts' = ServerPage(SaveSchema)
    /\ disabled' = loadDisabled
    /\ msg' = MsgSave
    /\ edits_made' = FALSE
    /\ inflight' = <<>>
    /\ navigated' = FALSE
    /\ unsaved' = {}
    /\ editInFlight' = FALSE
    /\ edited' = FALSE
    /\ editSinceSave' = FALSE
    /\ saved' = FALSE
    /\ ev' = [kind |-> "load", issued |-> FALSE, outcome |-> "", alert |-> FALSE,
              wasDisabled |-> loadDisabled, hadEdits |-> FALSE,
              hadUnsaved |-> FALSE, sinceSave |-> FALSE, edited |-> FALSE,
              pending |-> 0, hadUnsent |-> FALSE, hadSaved |-> FALSE,
              prevOutcome |-> ""]
    /\ UNCHANGED <<variant, loadDisabled>>

SaveNext ==
    \/ \E i \in Items, k \in 1..Len(SaveSchema) : EditAnnotation(i, k)
    \/ SaveClick
    \/ PageClick
    \/ TimerTick
    \/ \E n \in 1..MaxInFlight, o \in Outcomes : Respond(n, o)
    \/ PageLoad

Next == SaveNext /\ UNCHANGED <<editVars, applyVars, optVars>>

Spec == Init /\ [][Next]_vars

(***************************************************************************)
(* The field editor and parseAnnotationFields.  A label is the sequence of *)
(* its characters, so that the collapsing of whitespace runs is computed.  *)
(***************************************************************************)
Space == " "

\* label.replace(/\s+/g, ' ')
RECURSIVE CollapseSpaces(_)
CollapseSpaces(l) ==
    IF Len(l) < 2 THEN l
    ELSE IF l[1] = Space /\ l[2] = Space THEN CollapseSpaces(Tail(l))
    ELSE <<l[1]>> \o CollapseSpaces(Tail(l))

\* the dataset's own column names (original_columns)
OriginalColumns == {<<"b">>}

\* the labels and option values a user types in the model
LabelChoices == {<<>>, <<"b">>, <<"a", " ", "b">>, <<"a", " ", " ", "b">>}
OptVals == {"", "x", "y"}

FieldName == <<"f1", "f2", "f3", "f4">>
OptName == <<"o1", "o2", "o3", "o4">>

\* a fault: a warning once set is kept
KeepFirstWarning(old, new) == IF old = NoWarning THEN new ELSE old

\* warning = "..."
SetWarning(old, new) == new

\* this.id.split("-")[1] of the row's dd: undefined when the dd has no id
FieldId(row) == IF Len(row.id) >= 2 THEN row.id[2] ELSE "undefined"

\* annotation_fields[field_id] = def
Upsert(fields, id, def) ==
    IF \E k \in 1..Len(fields) : fields[k].id = id
    THEN [k \in 1..Len(fields) |->
            IF fields[k].id = id THEN [id |-> id, def |-> def] ELSE fields[k]]
    ELSE Append(fields, [id |-> id, def |-> def])

SeqRange(q) == {q[n] : n \in 1..Len(q)}

\* the loop over the option inputs of one row
RECURSIVE OptionLoop(_, _, _)
OptionLoop(opts, j, st) ==
    IF j > Len(opts) THEN st
    ELSE LET o == opts[j]
             seen == {st.options[n].label : n \in 1..Len(st.options)}
         IN IF o.val \notin seen /\ o.val # ""
            THEN OptionLoop(opts, j + 1,
                   [st EXCEPT !.options = Append(@, [id |-> o.id, label |-> o.val])])
            ELSE IF o.val \in seen
            THEN OptionLoop(opts, j + 1,
                   [st EXCEPT !.warning = SetWarning(@, WarnOptionUnique)])
            ELSE OptionLoop(opts, j + 1, st)

\* the body of the loop over .annotation-field, for one row
ParseRow(v, row, st) ==
    LET label == CollapseSpaces(row.label)
        fid == FieldId(row)
        w1 == IF Len(label) = 0 THEN SetWarning(st.warning, WarnEmpty)
              ELSE IF label \in SeqRange(st.labels_added)
                 THEN SetWarning(st.warning, WarnUnique)
              ELSE IF label \in OriginalColumns
                 THEN SetWarning(st.warning, WarnReserved(label))
              ELSE st.warning
        labels == Append(st.labels_added, label)
    IN IF row.type \in TextTypes
       THEN [st EXCEPT !.warning = w1, !.labels_added = labels,
                       !.fields = Upsert(@, fid, [type |-> row.type, label |-> label])]
       \* part_000 reads $(this).id, which is undefined, at the first option input
       ELSE IF v = "part_000" /\ Len(row.opts) > 0
       THEN [st EXCEPT !.throws = TRUE]
       ELSE LET os == OptionLoop(row.opts, 1, [options |-> <<>>, warning |-> w1])
                w2 == IF os.options = <<>> THEN SetWarning(os.warning, WarnNoOption)
                      ELSE os.warning
            IN [st EXCEPT !.warning = w2, !.labels_added = labels,
                          !.fields = IF Len(os.options) > 0
                                     THEN Upsert(@, fid, [type |-> row.type,
                                                  label |-> label,
                                                  options |-> os.options])
                                     ELSE @]

RECURSIVE RowLoop(_, _, _, _)
RowLoop(v, rows, k, st) ==
    IF k > Len(rows) \/ st.throws THEN st
    ELSE RowLoop(v, rows, k + 1, ParseRow(v, rows[k], st))

\* parseAnnotationFields: a warning, the schema, or a TypeError
ParseAnnotationFields(v, rows) ==
    LET st == RowLoop(v, rows, 1, [fields |-> <<>>, warning |-> NoWarning,
                                   labels_added |-> <<>>, throws |-> FALSE])
    IN IF st.throws THEN [kind |-> "throws"]
       ELSE IF st.warning # NoWarning
       THEN [kind |-> "warning", warning |-> st.warning]
       ELSE [kind |-> "schema", fields |-> st.fields]

\* the rows the model puts into the editor
OptionInputs ==
    UNION {[1..n -> OptVals] : n \in 1..MaxOpts}

EditorRow(k, label, type, vals) ==
    [id |-> <<"field", FieldName[k]>>, label |-> label, type |-> type,
     opts |-> [j \in 1..Len(vals) |->
                 [id |-> OptName[j], val |-> vals[j], del |-> j < Len(vals)]]]

EditorRows(k) ==
    {EditorRow(k, l, t, <<>>) : l \in LabelChoices, t \in TextTypes}
    \cup {EditorRow(k, l, t, vs) : l \in LabelChoices, t \in OptionTypes,
                                   vs \in OptionInputs}

RECURSIVE EditorsOfLen(_)
EditorsOfLen(n) ==
    IF n = 0 THEN {<<>>}
    ELSE {Append(e, r) : e \in EditorsOfLen(n - 1), r \in EditorRows(n)}

Editors == UNION {EditorsOfLen(n) : n \in 0..MaxFields}

SaveIdle ==
    /\ posts = <<>>
    /\ disabled = TRUE
    /\ loadDisabled = TRUE
    /\ msg = MsgSave
    /\ edits_made = FALSE
    /\ inflight = <<>>
    /\ navigated = FALSE
    /\ unsaved = {}
    /\ editInFlight = FALSE
    /\ edited = FALSE
    /\ editSinceSave = FALSE
    /\ saved = FALSE
    /\ ev = [kind |-> "load"]

ParseInit ==
    /\ variant \in Variants
    /\ SaveIdle
    /\ editor \in Editors
    /\ parsed = NotParsed
    /\ ApplyIdle
    /\ OptionsIdle

Parse ==
    /\ parsed = NotParsed
    /\ parsed' = ParseAnnotationFields(variant, editor)
    /\ UNCHANGED <<variant, saveVars, editor, applyVars, optVars>>

\* the dd of a row of addAnnotationField has no id
AddedRowId == <<>>

\* the labels a user types into the rows of addAnnotationField
AddedLabels == {<<"c">>, <<"d">>}

\* addAnnotationField: a row with an empty label, type text and an empty
\* options container is put at the end of the editor
AddAnnotationField ==
    /\ parsed = NotParsed
    /\ Len(editor) < MaxFields
    /\ editor' = Append(editor, [id |-> AddedRowId, label |-> <<>>,
                                 type |-> "text", opts |-> <<>>])
    /\ UNCHANGED <<variant, saveVars, parsed, applyVars, optVars>>

\* the user types the label of a row of addAnnotationField
TypeLabel(k, l) ==
    /\ parsed = NotParsed
    /\ k \in 1..Len(editor)
    /\ editor[k].id = AddedRowId
    /\ editor[k].label # l
    /\ editor' = [editor EXCEPT ![k].label = l]
    /\ applyCtl' = [applyCtl EXCEPT !.disabled = FALSE]
    /\ UNCHANGED <<variant, saveVars, parsed, warn, fieldReqs, toggle,
                   serverFields, reloaded, applied, optVars>>

ParseNext ==
    \/ Parse
    \/ AddAnnotationField
    \/ \E k \in 1..MaxFields, l \in AddedLabels : TypeLabel(k, l)

SpecParse == ParseInit /\ [][ParseNext]_vars

(***************************************************************************)
(* applyAnnotationFields: the widgets of every item are reconciled with    *)
(* the schema the editor holds.  A selector .c finds the elements that     *)
(* carry the class token c; the first item stands for all of them.         *)
(***************************************************************************)
HasClass(cls, t) == \E n \in 1..Len(cls) : cls[n] = t

\* attr('class').split(' ').at(-1)
LastClass(cls) == cls[Len(cls)]

RemoveClass(cls, t) == SelectSeq(cls, LAMBDA c : c # t)
AddClass(cls, t) == IF HasClass(cls, t) THEN cls ELSE Append(cls, t)

\* the text a textarea holds when add_val is put between its tags as markup
HtmlText(v) == IF v = "&lt;" THEN "<" ELSE v

InputClass == Tok("", "post-annotation-input")

\* an option of a dropdown built for a new field: the loop variable that
\* holds the option's id is out of scope where the markup is written
CreatedOption(type, o) ==
    [cls |-> <<InputClass, Tok("option-", IF type = "dropdown" THEN "" ELSE o.id)>>,
     hasId |-> TRUE, value |-> o.label, text |-> o.label,
     sel |-> FALSE, edited |-> FALSE]

\* an option appended to a widget that is already there
AppendedOption(o) ==
    [cls |-> <<InputClass, Tok("option-", o.id)>>,
     hasId |-> TRUE, value |-> o.label, text |-> o.label,
     sel |-> FALSE, edited |-> FALSE]

\* the widget built for a field of fields_to_add
CreatedWidget(f, def) ==
    [cls |-> <<Tok("", "post-annotation"), Tok("field-", f), Tok("", def.type)>>,
     label |-> def.label,
     ctl |-> CASE def.type = "text" -> "input"
               [] def.type = "textarea" -> "textarea"
               [] def.type = "dropdown" -> "select"
               [] OTHER -> "checkboxes",
     icls |-> CASE def.type = "text" -> <<InputClass, Tok("text-", f)>>
                [] def.type = "textarea" -> <<InputClass, Tok("textarea-", f)>>
                [] OTHER -> <<>>,
     val |-> "", edited |-> FALSE,
     opts |-> IF def.type \in TextTypes THEN NoOpt
              ELSE (IF def.type = "dropdown" THEN <<EmptyOption>> ELSE <<>>)
                   \o [j \in 1..Len(def.options) |->
                         CreatedOption(def.type, def.options[j])]]

\* a select whose selected option went away shows its first option
SelectFirst(w) ==
    IF w.ctl = "select" /\ Len(w.opts) > 0
       /\ \A n \in 1..Len(w.opts) : ~w.opts[n].sel
    THEN [w EXCEPT !.opts[1].sel = TRUE]
    ELSE w

Matches(w, f) == HasClass(w.cls, Tok("field-", f))

AllWidgets(page) == Flatten([i \in 1..Len(page) |-> page[i].anns])

\* $(class_id).first()
FirstMatch(page, f) ==
    SelectSeq(AllWidgets(page), LAMBDA w : Matches(w, f))[1]

\* the elements $(class_id) finds
MatchingWidgets(page, f) ==
    {w \in SeqRange(AllWidgets(page)) : Matches(w, f)}

\* $(class_id).each(...): every element found becomes its image under img
EachMatching(page, f, img) ==
    [i \in 1..Len(page) |->
        [id |-> page[i].id,
         anns |-> [k \in 1..Len(page[i].anns) |->
                     IF Matches(page[i].anns[k], f) THEN img[page[i].anns[k]]
                     ELSE page[i].anns[k]]]]

\* $("." + t).remove()
RemoveMatching(page, t) ==
    [i \in 1..Len(page) |->
        [id |-> page[i].id,
         anns |-> SelectSeq(page[i].anns, LAMBDA w : ~HasClass(w.cls, t))]]

\* a fault: the widgets of the first item are not looked at
NoAddedFields(page) == {}

\* the second class token of every widget of the first item
AddedFields(page) ==
    IF page = <<>> THEN {}
    ELSE {page[1].anns[k].cls[2] : k \in 1..Len(page[1].anns)}

\* the labels are rewritten when the first one differs
Relabel(page, f, label) ==
    IF FirstMatch(page, f).label # label
    THEN EachMatching(page, f, [w \in MatchingWidgets(page, f) |->
                                  [w EXCEPT !.label = label]])
    ELSE page

\* the text control of one widget is replaced by one of the other type
ConvertText(w, f, type) ==
    IF w.ctl \notin {"input", "textarea"} THEN w
    ELSE IF type = "text"
    THEN [w EXCEPT !.cls = AddClass(RemoveClass(w.cls, Tok("", "textarea")),
                                    Tok("", "text")),
                   !.ctl = "input",
                   !.icls = <<InputClass, Tok("text-", f)>>,
                   !.edited = FALSE]
    ELSE [w EXCEPT !.cls = AddClass(RemoveClass(w.cls, Tok("", "text")),
                                    Tok("", "textarea")),
                   !.ctl = "textarea",
                   !.icls = <<InputClass, Tok("textarea-", f)>>,
                   !.val = HtmlText(w.val),
                   !.edited = FALSE]

HasOptionList(w) == w.ctl \in {"select", "checkboxes"}

\* the loop over the schema's options of one field
RECURSIVE OptionsLoop(_, _, _, _)
OptionsLoop(page, f, options, j) ==
    IF j > Len(options) THEN page
    ELSE LET o == options[j]
             t == Tok("option-", o.id)
             found == SelectSeq(FirstMatch(page, f).opts,
                                LAMBDA e : HasClass(e.cls, t))
             appended == EachMatching(page, f,
                 [w \in MatchingWidgets(page, f) |->
                     IF HasOptionList(w)
                     THEN [w EXCEPT !.opts = Append(w.opts, AppendedOption(o))]
                     ELSE w])
             relabelled == EachMatching(page, f,
                 [w \in MatchingWidgets(page, f) |->
                     [w EXCEPT !.opts = [n \in 1..Len(w.opts) |->
                         IF HasClass(w.opts[n].cls, t)
                         THEN [w.opts[n] EXCEPT !.value = o.label,
                                                !.text = o.label]
                         ELSE w.opts[n]]]])
         IN IF found = <<>> THEN OptionsLoop(appended, f, options, j + 1)
            ELSE IF found[1].value # o.label
            THEN OptionsLoop(relabelled, f, options, j + 1)
            ELSE OptionsLoop(page, f, options, j + 1)

\* the options of the first list that carry an id, by their last class
PresentOptions(page, f) ==
    LET lists == SelectSeq(AllWidgets(page),
                           LAMBDA w : Matches(w, f) /\ HasOptionList(w))
    IN IF lists = <<>> THEN {}
       ELSE {LastClass(lists[1].opts[n].cls) :
                n \in {m \in 1..Len(lists[1].opts) : lists[1].opts[m].hasId}}

\* a fault: options that left the schema stay in the widgets
ReconcileOptionsKeepsAll(page, f, def) == OptionsLoop(page, f, def.options, 1)

\* options are added and relabelled, then those not in the schema removed
ReconcileOptions(page, f, def) ==
    LET p1 == OptionsLoop(page, f, def.options, 1)
        valid == {Tok("option-", def.options[j].id) : j \in 1..Len(def.options)}
        gone == PresentOptions(p1, f) \ valid
    IN EachMatching(p1, f,
          [w \in MatchingWidgets(p1, f) |->
              SelectFirst([w EXCEPT !.opts = SelectSeq(w.opts, LAMBDA e :
                              \A t \in gone : ~HasClass(e.cls, t))])])

\* the body of the loop over the schema's fields
ReconcileField(st, fld) ==
    LET f == fld.id
        def == fld.def
    IN IF Tok("field-", f) \notin st.added
       THEN [st EXCEPT !.toAdd = Upsert(@, f, def)]
       ELSE LET p1 == Relabel(st.page, f, def.label)
                old_input_type == LastClass(FirstMatch(p1, f).cls)
            IN IF Tok("", def.type) # old_input_type
               THEN IF /\ def.type \in TextTypes
                       /\ old_input_type \in {Tok("", t) : t \in TextTypes}
                    THEN [st EXCEPT !.page = EachMatching(p1, f,
                                [w \in MatchingWidgets(p1, f) |->
                                    ConvertText(w, f, def.type)])]
                    ELSE [st EXCEPT !.page = RemoveMatching(p1, Tok("field-", f)),
                                    !.toAdd = Upsert(@, f, def)]
               ELSE IF def.type \in OptionTypes
               THEN [st EXCEPT !.page = ReconcileOptions(p1, f, def)]
               ELSE [st EXCEPT !.page = p1]

RECURSIVE FieldLoop(_, _, _)
FieldLoop(schema, k, st) ==
    IF k > Len(schema) THEN st
    ELSE FieldLoop(schema, k + 1, ReconcileField(st, schema[k]))

\* the widgets of fields_to_add are appended to every item's panel
RECURSIVE AddLoop(_, _, _)
AddLoop(page, toAdd, k) ==
    IF k > Len(toAdd) THEN page
    ELSE AddLoop([i \in 1..Len(page) |->
                    [id |-> page[i].id,
                     anns |-> Append(page[i].anns,
                                     CreatedWidget(toAdd[k].id, toAdd[k].def))]],
                 toAdd, k + 1)

\* the widgets of the first item whose field is not in the schema go,
\* with everything else that carries their second class token
RECURSIVE RemoveLoop(_, _, _, _)
RemoveLoop(page, present, valid, k) ==
    IF k > Len(present) THEN page
    ELSE IF present[k] \in valid THEN RemoveLoop(page, present, valid, k + 1)
    ELSE RemoveLoop(RemoveMatching(page, present[k]), present, valid, k + 1)

\* lines 419 to 643 of applyAnnotationFields, for a schema
Reconcile(page, schema) ==
    LET st == FieldLoop(schema, 1, [page |-> page, toAdd |-> <<>>,
                                    added |-> AddedFields(page)])
        p2 == AddLoop(st.page, st.toAdd, 1)
        present == IF p2 = <<>> THEN <<>>
                   ELSE [k \in 1..Len(p2[1].anns) |-> p2[1].anns[k].cls[2]]
        valid == {Tok("field-", schema[k].id) : k \in 1..Len(schema)}
    IN RemoveLoop(p2, present, valid, 1)

\* a fault: warnEditor leaves the text of #input-warning alone
WarnEditorKeeps(cur, warning) == cur

\* warnEditor: warn_field.html(warning)
WarnEditor(cur, warning) == warning

WarnNotSaved == Warn("Couldn't save annotation fields", <<>>)
\* warnEditor(error): the transport's error object, whatever it renders as
WarnTransport == Warn("(the error object of the request)", <<>>)

\* the rows the user leaves in the editor when Apply is clicked: a row the
\* server rendered carries its field's id and can only be edited or
\* deleted; a row of addAnnotationField carries none
ServerRowId == <<"field", FieldName[1]>>

ApplyRow(id, label, type, os) ==
    [id |-> id, label |-> label, type |-> type,
     opts |-> [j \in 1..Len(os) |->
                 [id |-> os[j].id, val |-> os[j].val, del |-> j < Len(os)]]]

OptIn(n, v) == [id |-> OptName[n], val |-> v]

\* option inputs that remove, relabel and add options of the server's list
ApplyOptionLists ==
    {<<OptIn(1, "x")>>, <<OptIn(1, "z"), OptIn(2, "y")>>}

ServerRows ==
    {ApplyRow(ServerRowId, <<"a">>, t, <<>>) : t \in TextTypes}
    \cup {ApplyRow(ServerRowId, <<"d">>, "text", <<>>)}
    \cup {ApplyRow(ServerRowId, <<"a">>, t, os) : t \in OptionTypes,
                                                 os \in ApplyOptionLists}

AddedRows == {ApplyRow(AddedRowId, <<"c">>, "text", <<>>)}

\* editors that fail a rule: an empty label, a reserved label
InvalidEditors ==
    {<<ApplyRow(ServerRowId, <<>>, "text", <<>>)>>,
     <<ApplyRow(AddedRowId, <<"b">>, "text", <<>>)>>}

HasServerRow(rows) == \E k \in 1..Len(rows) : rows[k].id = ServerRowId

NextEditors(rows) ==
    {e \in InvalidEditors : HasServerRow(e) => HasServerRow(rows)}
    \cup {s \o a : s \in {<<>>} \cup (IF HasServerRow(rows)
                                       THEN {<<r>> : r \in ServerRows} ELSE {}),
                    a \in {<<>>} \cup {<<r>> : r \in AddedRows}}

\* the editor as the server renders it for a schema
ServerEditor(schema) ==
    [k \in 1..Len(schema) |->
        ApplyRow(<<"field", schema[k].id>>, schema[k].def.label,
                 schema[k].def.type,
                 IF schema[k].def.type \in TextTypes THEN <<>>
                 ELSE [j \in 1..Len(schema[k].def.options) |->
                         [id |-> schema[k].def.options[j].id,
                          val |-> schema[k].def.options[j].label]])]

ServerOptions == <<[id |-> OptName[1], label |-> "x"],
                   [id |-> OptName[2], label |-> "y"]>>

ApplyServerSchemas ==
    {<<>>}
    \cup {<<[id |-> FieldName[1], def |-> [type |-> t, label |-> <<"a">>]]>> :
             t \in TextTypes}
    \cup {<<[id |-> FieldName[1],
             def |-> [type |-> t, label |-> <<"a">>,
                      options |-> ServerOptions]]>> : t \in OptionTypes}

\* a fault: fieldsExist tests for more than one entry
FieldsExistOffByOne(fields) ==
    IF Len(fields) <= 1 THEN [ret |-> FALSE, disabled |-> TRUE]
    ELSE [ret |-> TRUE, disabled |-> FALSE]

\* fieldsExist: what it returns and the class disabled of
\* #toggle-annotations, from the field mapping the server put in the page
FieldsExist(fields) ==
    IF Len(fields) < 1 THEN [ret |-> FALSE, disabled |-> TRUE]
    ELSE [ret |-> TRUE, disabled |-> FALSE]

ApplyPage(schema) == [i \in 1..NApplyItems |-> ServerPost(i, schema)]

\* the text a user types into a text widget in the model
ApplyTextVals == {"&lt;"}

ApplyInit ==
    /\ variant \in Variants
    /\ serverFields \in ApplyServerSchemas
    /\ posts = ApplyPage(serverFields)
    /\ editor = ServerEditor(serverFields)
    /\ parsed = NotParsed
    /\ disabled = TRUE
    /\ loadDisabled = TRUE
    /\ msg = MsgSave
    /\ edits_made = FALSE
    /\ inflight = <<>>
    /\ navigated = FALSE
    /\ unsaved = {}
    /\ editInFlight = FALSE
    /\ edited = FALSE
    /\ editSinceSave = FALSE
    /\ saved = FALSE
    /\ ev = [kind |-> "load", issued |-> FALSE, outcome |-> "", alert |-> FALSE,
             wasDisabled |-> TRUE, hadEdits |-> FALSE, hadUnsaved |-> FALSE,
             sinceSave |-> FALSE, edited |-> FALSE, pending |-> 0,
             hadUnsent |-> FALSE, hadSaved |-> FALSE, prevOutcome |-> ""]
    /\ warn = NoWarning
    /\ fieldReqs = 0
    /\ toggle = [disabled |-> FieldsExist(serverFields).disabled, shown |-> FALSE]
    /\ applyCtl = [disabled |-> TRUE, hidden |-> FALSE]
    /\ reloaded = FALSE
    /\ applied = NotApplied
    /\ OptionsIdle

saveGhosts == <<inflight, navigated, unsaved, editInFlight, loadDisabled,
                edited, editSinceSave, saved, ev>>

\* keydown in a text widget: the save control is enabled, edits_made is
\* set and the control gets the class edited
ApplyEdit(i, k, v) ==
    /\ ~reloaded
    /\ i \in 1..Len(posts) /\ k \in 1..Len(posts[i].anns)
    /\ posts[i].anns[k].ctl \in {"input", "textarea"}
    /\ posts' = [posts EXCEPT ![i].anns[k] = EditText(@, v)]
    /\ disabled' = FALSE
    /\ msg' = MsgSave
    /\ edits_made' = TRUE
    /\ UNCHANGED <<variant, saveGhosts, editVars, applyVars, optVars>>

\* what applyAnnotationFields does once parseAnnotationFields has returned
ApplyResult(r) ==
    /\ IF r.kind = "warning"
       THEN /\ warn' = WarnEditor(warn, r.warning)
            /\ UNCHANGED <<posts, fieldReqs, toggle, reloaded>>
       ELSE IF r.kind = "throws"
       THEN /\ warn' = WarnEditor(warn, NoWarning)
            /\ UNCHANGED <<posts, fieldReqs, toggle, reloaded>>
       ELSE /\ fieldReqs < MaxFieldReqs
            /\ warn' = WarnEditor(warn, NoWarning)
            /\ fieldReqs' = fieldReqs + 1
            /\ IF variant = "explorer"
               THEN /\ posts' = Reconcile(posts, r.fields)
                    /\ toggle' = IF posts' = <<>> \/ posts'[1].anns = <<>>
                                 THEN [disabled |-> TRUE, shown |-> FALSE]
                                 ELSE [disabled |-> FALSE, shown |-> TRUE]
                    /\ UNCHANGED reloaded
               ELSE /\ toggle' = [toggle EXCEPT
                                    !.disabled = FieldsExist(serverFields).disabled]
                    /\ reloaded' = TRUE
                    /\ UNCHANGED posts
    \* location.reload() runs while the request is on its way: the page
    \* that comes back was rendered before or after the server stored the
    \* schema
    /\ \E from \in (IF reloaded' THEN {"old", "new"} ELSE {"none"}) :
          applied' = [kind |-> r.kind, same |-> posts' = posts,
                      posted |-> fieldReqs' # fieldReqs,
                      shown |-> warn' = IF r.kind = "warning" THEN r.warning
                                        ELSE NoWarning,
                      resp |-> "none", renderedFrom |-> from]

\* a click on Apply, or Enter in an input of the editor, with the rows the
\* user has left there
Apply(rows) ==
    /\ ~reloaded /\ ~applyCtl.hidden
    /\ editor' = rows
    /\ parsed' = ParseAnnotationFields(variant, rows)
    /\ applyCtl' = [applyCtl EXCEPT !.disabled = FALSE]
    /\ ApplyResult(parsed')
    /\ UNCHANGED <<variant, disabled, msg, edits_made, saveGhosts, serverFields,
                   optVars>>

\* a fault: the apply control is disabled whatever the response is
FieldsRespondDisables(outcome) ==
    /\ ~reloaded
    /\ fieldReqs > 0
    /\ fieldReqs' = fieldReqs - 1
    /\ applyCtl' = [applyCtl EXCEPT !.disabled = TRUE]
    /\ warn' = IF outcome = "success" THEN warn
               ELSE WarnEditor(warn, IF outcome = "rejected" THEN WarnNotSaved
                                     ELSE WarnTransport)
    /\ applied' = [applied EXCEPT !.resp = outcome]
    /\ UNCHANGED <<variant, saveVars, editVars, toggle, serverFields, reloaded,
                   optVars>>

\* the callbacks of the request of saveAnnotationFields
FieldsRespond(outcome) ==
    /\ ~reloaded
    /\ fieldReqs > 0
    /\ fieldReqs' = fieldReqs - 1
    /\ IF outcome = "success"
       THEN /\ applyCtl' = [disabled |-> TRUE, hidden |-> TRUE]
            /\ UNCHANGED warn
       ELSE /\ warn' = WarnEditor(warn, IF outcome = "rejected" THEN WarnNotSaved
                                        ELSE WarnTransport)
            /\ UNCHANGED applyCtl
    /\ applied' = [applied EXCEPT !.resp = outcome]
    /\ UNCHANGED <<variant, saveVars, editVars, toggle, serverFields, reloaded,
                   optVars>>

\* a click on #toggle-annotations: nothing while it has the class disabled,
\* else hideAnnotations or showAnnotations
ToggleClick ==
    /\ ~reloaded
    /\ toggle' = IF toggle.disabled THEN toggle
                 ELSE IF toggle.shown THEN [toggle EXCEPT !.shown = FALSE]
                 ELSE [disabled |-> FALSE, shown |-> TRUE]
    /\ UNCHANGED <<variant, saveVars, editVars, warn, fieldReqs, applyCtl,
                   serverFields, reloaded, applied, optVars>>

ApplyNext ==
    \/ ToggleClick
    \/ \E rows \in NextEditors(editor) : Apply(rows)
    \/ \E i \in 1..NApplyItems, k \in 1..MaxFields, v \in ApplyTextVals : ApplyEdit(i, k, v)
    \/ \E o \in Outcomes : FieldsRespond(o)

SpecApply == ApplyInit /\ [][ApplyNext]_vars

(***************************************************************************)
(* Saving the annotations of a page that applyAnnotationFields has         *)
(* reconciled: the editor is applied once, widgets are edited and the save *)
(* control is clicked.                                                     *)
(***************************************************************************)
CollectNext ==
    \/ \E rows \in NextEditors(editor) : applied.kind = "none" /\ Apply(rows)
    \/ \E i \in 1..NApplyItems, k \in 1..MaxFields, v \in ApplyTextVals :
          ApplyEdit(i, k, v)
    \/ SaveClick /\ UNCHANGED <<editVars, applyVars, optVars>>

SpecCollect == ApplyInit /\ [][CollectNext]_vars

(***************************************************************************)
(* The option inputs of one row of the editor: toggleField, addOptions     *)
(* and deleteOption.  An input is its value and whether its .option-field  *)
(* carries a delete control.                                               *)
(***************************************************************************)
\* getInputField: an empty input without a delete control
NewInput == [val |-> "", del |-> FALSE]

InsertAfter(g, j, e) ==
    [n \in 1..(Len(g) + 1) |->
        IF n <= j THEN g[n] ELSE IF n = j + 1 THEN e ELSE g[n - 1]]

\* a fault: every .option-field gets a delete control, the last one too
DeleteControlsOnAll(g) == [n \in 1..Len(g) |-> [g[n] EXCEPT !.del = TRUE]]

\* every delete control is removed, then all but the last get one
DeleteControls(g) == [n \in 1..Len(g) |-> [g[n] EXCEPT !.del = n < Len(g)]]

\* addOptions(el), el the input at position j
AddOptions(g, j) ==
    LET no_empty_fields == \A n \in 1..Len(g) : g[n].val # ""
    IN DeleteControls(IF no_empty_fields THEN InsertAfter(g, j, NewInput) ELSE g)

\* keyup in the input at position j, which then holds v: addOptions runs
\* when the input is not empty
KeyUp(j, v) ==
    /\ j \in 1..Len(group)
    /\ LET typed == [group EXCEPT ![j].val = v]
       IN /\ group' = IF v # "" THEN AddOptions(typed, j) ELSE typed
          /\ Len(group') <= MaxGroup
    /\ lastOp' = [kind |-> "keyup", at |-> j, val |-> v]
    /\ applyCtl' = [applyCtl EXCEPT !.disabled = FALSE]
    /\ UNCHANGED <<variant, saveVars, editVars, warn, fieldReqs, toggle,
                   serverFields, reloaded, applied, rowType>>

\* deleteOption(el), el the delete control of the input at position j
DeleteOption(j) ==
    /\ j \in 1..Len(group)
    /\ group[j].del
    /\ LET rest == RemoveAt(group, j)
       IN group' = IF Len(rest) = 1
                   THEN [n \in 1..Len(rest) |-> [rest[n] EXCEPT !.del = FALSE]]
                   ELSE rest
    /\ lastOp' = [kind |-> "delete", at |-> j, val |-> group[j].val]
    /\ applyCtl' = [applyCtl EXCEPT !.disabled = FALSE]
    /\ UNCHANGED <<variant, saveVars, editVars, warn, fieldReqs, toggle,
                   serverFields, reloaded, applied, rowType>>

\* toggleField(el): the type selector was switched to type t
ToggleField(t) ==
    /\ t # rowType
    /\ rowType' = t
    /\ group' = IF t \in TextTypes THEN <<>>
                ELSE IF Len(group) = 0 THEN <<NewInput>>
                ELSE group
    /\ lastOp' = [kind |-> "toggle", at |-> 0, val |-> t]
    /\ applyCtl' = [applyCtl EXCEPT !.disabled = FALSE]
    /\ UNCHANGED <<variant, saveVars, editVars, warn, fieldReqs, toggle,
                   serverFields, reloaded, applied>>

OptionsInit ==
    /\ variant \in Variants
    /\ SaveIdle
    /\ editor = <<>>
    /\ parsed = NotParsed
    /\ ApplyIdle
    /\ OptionsIdle

OptionsNext ==
    \/ \E j \in 1..MaxGroup, v \in OptVals : KeyUp(j, v)
    \/ \E j \in 1..MaxGroup : DeleteOption(j)
    \/ \E t \in FieldTypes : ToggleField(t)

SpecOptions == OptionsInit /\ [][OptionsNext]_vars

(***************************************************************************)
(* The save control: claims C1 to C5.                                      *)
(***************************************************************************)

\* C1, as stated: over every interleaving of edits, clicks, timer ticks,
\* pagination clicks and responses, at most one save_annotations request
\* is outstanding.
C1_AtMostOneOutstanding == Len(inflight) <= 1

\* C1, amended: two requests are outstanding together only when an edit
\* event happened while a request was outstanding (the edit takes the
\* disabled class off the control in the middle of the save).
C1_OverlapOnlyAfterEditInFlight == Len(inflight) >= 2 => editInFlight

\* a click on the disabled control while one request is outstanding, which
\* issued nothing
C1_Witness ==
    /\ ev.kind = "click" /\ ev.wasDisabled /\ ~ev.issued
    /\ ev.pending = 1 /\ Len(inflight) = 1 /\ ~editInFlight

\* C2, as stated: once saveAnnotations has put the disabled class on the
\* control, a trigger issues no request while the class is there, and every
\* trigger that arrives after it was cleared issues exactly one.
C2_EveryTriggerAfterClearIssues ==
    (ev.kind \in Triggers /\ ev.hadSaved) => (ev.issued <=> ~ev.wasDisabled)

\* C2, amended: a trigger issues no request while the control carries the
\* disabled class; once it is cleared a manual or pagination click issues
\* exactly one, and a timer tick issues one exactly when edits_made is set.
C2_TriggersByClass ==
    /\ (ev.kind \in Triggers /\ ev.wasDisabled) => ~ev.issued
    /\ (ev.kind \in {"click", "page"} /\ ~ev.wasDisabled) =>
          (ev.issued /\ Len(inflight) = ev.pending + 1)
    /\ (ev.kind = "timer" /\ ~ev.wasDisabled) =>
          /\ ev.issued <=> ev.hadEdits
          /\ Len(inflight) = ev.pending + (IF ev.hadEdits THEN 1 ELSE 0)

\* a timer tick with edits made, suppressed by the class of an outstanding save
C2_Witness ==
    /\ ev.kind = "timer" /\ ev.wasDisabled /\ ev.hadEdits /\ ~ev.issued
    /\ ev.pending = 1 /\ Len(inflight) = 1

\* C3, as stated: on a page loaded with the control enabled, every request
\* a trigger issues is preceded by an edit event that happened after the
\* most recent successful save (or after page load).
C3_EditSinceLastSave ==
    (ev.kind \in Triggers /\ ev.issued /\ ~loadDisabled) => ev.sinceSave

\* C3, amended: a request issued by a timer tick is preceded by an edit
\* event since page load; a request issued by a manual or pagination click
\* with no edit before it happens only on a page loaded with the control
\* enabled.
C3_TimerNeedsEditSinceLoad ==
    /\ (ev.kind = "timer" /\ ev.issued) => ev.edited
    /\ (ev.kind \in {"click", "page"} /\ ev.issued /\ ~ev.edited) =>
          ~loadDisabled

\* a timer tick that issued a request on a page loaded with the control enabled
C3_Witness ==
    ev.kind = "timer" /\ ev.issued /\ ev.edited /\ ~loadDisabled

\* C4, in its weakest reading: whenever a pagination link is clicked while
\* some widget's latest edit is in no request at all (neither answered with
\* success nor outstanding), saveAnnotations issues a request.
C4_PageClickSavesUnsaved ==
    (ev.kind = "page" /\ ev.hadUnsent) => ev.issued

\* C5: right after a response the control is disabled and reads
\* 'Annotations saved' when the response was "success", and is enabled
\* and reads 'Save annotations' after any other response or an error.
C5_FinalStateByOutcome ==
    ev.kind = "response" =>
        IF ev.outcome = "success" THEN disabled /\ msg = MsgSaved
        ELSE ~disabled /\ msg = MsgSave

\* a "success" response has just been handled
C5_Witness ==
    ev.kind = "response" /\ ev.outcome = "success" /\ disabled /\ msg = MsgSaved

(***************************************************************************)
(* The field editor's validation: claims C6 and C7.                        *)
(***************************************************************************)
NormLabel(rows, k) == CollapseSpaces(rows[k].label)

\* some option input holds a non-empty value no other input of the row holds
HasUniqueOption(row) ==
    \E j \in 1..Len(row.opts) :
        /\ row.opts[j].val # ""
        /\ \A i \in 1..Len(row.opts) : i # j => row.opts[i].val # row.opts[j].val

\* one of the four rules of C6 fails for row k
RuleFails(rows, k) ==
    \/ NormLabel(rows, k) = <<>>
    \/ \E m \in 1..(k - 1) : NormLabel(rows, m) = NormLabel(rows, k)
    \/ NormLabel(rows, k) \in OriginalColumns
    \/ rows[k].type \in OptionTypes /\ ~HasUniqueOption(rows[k])

\* C6, as stated (labels taken after the collapsing of whitespace):
\* parseFields returns a string if and only if some field has an empty
\* label, a label equal to an earlier field's, a reserved label or, for a
\* dropdown or checkbox, no unique non-empty option; otherwise it returns
\* the schema object.
C6_StringIffSomeRuleFails ==
    parsed # NotParsed =>
        IF \E k \in 1..Len(editor) : RuleFails(editor, k)
        THEN parsed.kind = "warning"
        ELSE parsed.kind = "schema"

\* the failures of row k in the order the code meets them
LabelFailure(rows, k) ==
    IF NormLabel(rows, k) = <<>> THEN <<WarnEmpty>>
    ELSE IF \E m \in 1..(k - 1) : NormLabel(rows, m) = NormLabel(rows, k)
    THEN <<WarnUnique>>
    ELSE IF NormLabel(rows, k) \in OriginalColumns
    THEN <<WarnReserved(NormLabel(rows, k))>>
    ELSE <<>>

RepeatedOption(row, j) ==
    /\ row.opts[j].val # ""
    /\ \E i \in 1..(j - 1) : row.opts[i].val = row.opts[j].val

OptionFailures(row) ==
    IF row.type \in TextTypes THEN <<>>
    ELSE IF \A j \in 1..Len(row.opts) : row.opts[j].val = ""
    THEN <<WarnNoOption>>
    ELSE IF \E j \in 1..Len(row.opts) : RepeatedOption(row, j)
    THEN <<WarnOptionUnique>>
    ELSE <<>>

RECURSIVE FailuresFrom(_, _)
FailuresFrom(rows, k) ==
    IF k > Len(rows) THEN <<>>
    ELSE LabelFailure(rows, k) \o OptionFailures(rows[k]) \o FailuresFrom(rows, k + 1)

Failures(rows) == FailuresFrom(rows, 1)

\* C7, as stated: the string returned is the warning of the first failure,
\* fields in editor order and per field the label rules before the options.
C7_FirstFailureReturned ==
    parsed.kind = "warning" => parsed.warning = Head(Failures(editor))

\* C7, amended: the string returned is the warning of the last failure in
\* that order: every later failure overwrites the warning.
C7_LastFailureReturned ==
    parsed.kind = "warning" =>
        /\ Failures(editor) # <<>>
        /\ parsed.warning = Failures(editor)[Len(Failures(editor))]

\* a warning was returned for an editor with two different failures
C7_Witness ==
    /\ parsed.kind = "warning"
    /\ Len(Failures(editor)) >= 2
    /\ Head(Failures(editor)) # Failures(editor)[Len(Failures(editor))]

(***************************************************************************)
(* applyAnnotationFields: claims C8 to C10.                                *)
(***************************************************************************)

\* C8: whenever parseAnnotationFields returns a warning string,
\* applyAnnotationFields shows that warning, issues no
\* save_annotation_fields request and leaves every widget of every item
\* (presence, type, label, options, value) as it was.
C8_WarningAborts ==
    applied.kind = "warning" =>
        applied.shown /\ ~applied.posted /\ applied.same

\* a warning was returned while the items carry widgets with typed text
C8_Witness ==
    /\ applied.kind = "warning" /\ parsed.kind = "warning"
    /\ warn = parsed.warning
    /\ \E i \in 1..Len(posts) : \E k \in 1..Len(posts[i].anns) :
          posts[i].anns[k].val # ""

WidgetsOf(i, f) == {k \in 1..Len(posts[i].anns) : Matches(posts[i].anns[k], f)}

\* C9: after applyAnnotationFields ran with a valid schema on a page whose
\* items all carry the same widgets, every item's panel holds exactly one
\* widget for each field id of the schema, with the class tokens
\* field-<id> and the field's type, and no widget of any other field.
C9_PanelsMatchSchema ==
    (variant = "explorer" /\ parsed.kind = "schema") =>
        \A i \in 1..Len(posts) :
            /\ \A n \in 1..Len(parsed.fields) :
                  /\ Cardinality(WidgetsOf(i, parsed.fields[n].id)) = 1
                  /\ \A k \in WidgetsOf(i, parsed.fields[n].id) :
                        HasClass(posts[i].anns[k].cls,
                                 Tok("", parsed.fields[n].def.type))
            /\ \A k \in 1..Len(posts[i].anns) :
                  \E n \in 1..Len(parsed.fields) :
                      Matches(posts[i].anns[k], parsed.fields[n].id)

\* the server's field was deleted in the editor and a new field added: the
\* old widgets are gone and every item holds the new field's widget
C9_Witness ==
    /\ variant = "explorer" /\ parsed.kind = "schema"
    /\ serverFields # <<>>
    /\ Len(parsed.fields) = 1 /\ parsed.fields[1].id = "undefined"
    /\ \A i \in 1..Len(posts) : Len(posts[i].anns) = 1

\* the type a rendered widget shows in its third class token
WidgetType(w) == StripPrefix(w.cls[3], "type-").s

\* a widget nobody has touched
Fresh(w) ==
    /\ w.val = "" /\ ~w.edited
    /\ \A n \in 1..Len(w.opts) :
          /\ ~w.opts[n].edited
          /\ w.opts[n].sel => (w.ctl = "select" /\ n = 1 /\ w.opts[n].value = "")

C10_Step ==
    (variant = "explorer" /\ fieldReqs' = fieldReqs + 1) =>
        \A n \in 1..Len(parsed'.fields) : \A i \in 1..Len(posts) :
            \A k \in WidgetsOf(i, parsed'.fields[n].id) :
                LET f == parsed'.fields[n].id
                    new == parsed'.fields[n].def.type
                    old == WidgetType(posts[i].anns[k])
                    after == {m \in 1..Len(posts'[i].anns) :
                                 Matches(posts'[i].anns[m], f)}
                IN old # new =>
                     /\ after # {}
                     /\ \A m \in after :
                           IF old \in TextTypes /\ new \in TextTypes
                           THEN posts'[i].anns[m].val = posts[i].anns[k].val
                           ELSE Fresh(posts'[i].anns[m])

\* C10, as stated: when applyAnnotationFields changes the type of a
\* rendered field between text and textarea, every item's widget of the
\* field keeps its text; for any other pair of distinct types every
\* item's widget is replaced by a fresh one without a value.
C10_TextKeptAcrossTextTypes == [][C10_Step]_vars

(***************************************************************************)
(* parseAnnotation's value: claim C11.                                     *)
(***************************************************************************)
CheckedLabels(w) ==
    LET on == SelectSeq(w.opts, LAMBDA e : e.sel)
    IN [n \in 1..Len(on) |-> on[n].text]

\* the value C11 states for a widget
StatedValue(w) ==
    IF w.ctl \in {"input", "textarea"} THEN StrVal(w.val)
    ELSE IF w.ctl = "select"
    THEN StrVal(SelectSeq(w.opts, LAMBDA e : e.sel)[1].text)
    ELSE IF CheckedLabels(w) = <<>> THEN Undefined
    ELSE ListVal(CheckedLabels(w))

\* C11, as stated: for every rendered widget parseAnnotation returns the
\* control's current string for text and textarea, the selected option's
\* label for a dropdown and, for a checkbox, the list of the labels of
\* exactly the checked options, or undefined when none is checked.  Read
\* on the request a trigger has just issued, whose records are
\* parseAnnotation's results for the widgets as they are.
C11_ValueAsStated ==
    (ev.kind \in Triggers /\ ev.issued) =>
        \A n \in 1..Len(AllWidgets(posts)) :
            inflight[Len(inflight)].anns[n].value = StatedValue(AllWidgets(posts)[n])

(***************************************************************************)
(* The option inputs of a row: claims C12 and C13.                         *)
(***************************************************************************)

\* C12, as stated: in every state reached by typing into, clearing and
\* deleting option inputs of a group that began with toggleField's single
\* empty input, at most one input is empty, and an empty one is the last.
C12_OneTrailingEmpty ==
    \A n \in 1..Len(group) : group[n].val = "" => n = Len(group)

\* C13: after any sequence of addOptions and deleteOption on a group that
\* began with toggleField's single input, the last option input carries
\* no delete control, so the group of a dropdown or checkbox row never
\* drops to zero option inputs.
C13_LastInputHasNoDeleteControl ==
    rowType \in OptionTypes =>
        /\ Len(group) >= 1
        /\ ~group[Len(group)].del

\* a delete control was used and left a single input, without a control
C13_Witness ==
    /\ rowType \in OptionTypes
    /\ lastOp.kind = "delete"
    /\ Len(group) = 1 /\ ~group[1].del

(***************************************************************************)
(* The records of a save_annotations request: claim C14.                   *)
(***************************************************************************)
\* what the class token with prefix p of a widget encodes
Encoded(w, p) == {Tok("", w.cls[n].s) : n \in {m \in 1..Len(w.cls) : w.cls[m].p = p}}

Failed == ev.kind = "response" /\ ev.outcome \in {"rejected", "error"}

SaveControlReset == ~disabled /\ msg = MsgSave

\* C15 as stated: every failed annotation save, whether the server
\* answered something other than "success" or the request failed in
\* transport, shows a one-shot alert and resets the save control to the
\* enabled state.
C15_AlertOnEveryFailure == Failed => (ev.alert /\ SaveControlReset)

\* C15: every failed annotation save resets the save control to the
\* enabled state; the one-shot alert is shown when the server answered
\* something other than "success" and is not shown when the request failed
\* in transport.
C15_FailureResetsControl ==
    Failed => (SaveControlReset /\ (ev.alert <=> ev.outcome = "rejected"))

\* a request failed in transport while the control was disabled: the
\* control is enabled again and no alert was shown
C15_Witness ==
    /\ ev.kind = "response" /\ ev.outcome = "error"
    /\ ev.wasDisabled /\ SaveControlReset /\ ~ev.alert

(***************************************************************************)
(* The response to save_annotation_fields: claim C16.  applied.resp is the *)
(* outcome of the request that completed since the last Apply.             *)
(***************************************************************************)
\* a step in which a save_annotation_fields request completes
FieldsResponseStep == fieldReqs' = fieldReqs - 1

FieldsExistDecided == variant = "part_000" \/ applied.kind = "none"

\* C17: fieldsExist returns false and disables the show/hide annotations
\* control when the dataset's field mapping has zero entries, and returns
\* true and removes the disabled state otherwise; while the control is
\* disabled a click on it neither shows nor hides the annotations.
C17_FieldsExist ==
    /\ [](FieldsExistDecided =>
            /\ toggle.disabled <=> serverFields = <<>>
            /\ FieldsExist(serverFields).ret <=> serverFields # <<>>)
    /\ [][(toggle.disabled /\ fieldReqs' = fieldReqs /\ reloaded' = reloaded)
             => toggle'.shown = toggle.shown]_vars

\* part_000 has posted a schema for a dataset without fields: fieldsExist
\* ran in saveAnnotationFields and the control is disabled
C17_Witness ==
    /\ variant = "part_000" /\ applied.kind = "schema" /\ applied.posted
    /\ serverFields = <<>> /\ toggle.disabled /\ ~toggle.shown

(***************************************************************************)
(* The option group after toggleField: claim C18.                          *)
(***************************************************************************)
HasEmptyInput == \E n \in 1..Len(group) : group[n].val = ""

\* C18: after toggleField runs for a type selector switched to dropdown or
\* checkbox the option group contains at least one empty option input, in
\* every state of the group reachable by earlier typing and deleting;
\* after a switch to text or textarea the group contains no option inputs.
C18_EmptyInputAfterToggle ==
    lastOp.kind = "toggle" =>
        IF lastOp.val \in OptionTypes THEN HasEmptyInput ELSE group = <<>>

(***************************************************************************)
(* The options of a dropdown or checkbox field after applying: claim C19.  *)
(***************************************************************************)
\* the options a widget offers: the empty first entry of a select, which
\* carries no id, is not one of them
Offered(w) == SelectSeq(w.opts, LAMBDA e : e.hasId)

\* the option id an offered entry carries in its class, "" when none
OptionIdOf(e) == StripPrefix(LastClass(e.cls), "option-").s

OffersSchemaOptions(w, def) ==
    /\ Len(Offered(w)) = Len(def.options)
    /\ \A j \in 1..Len(def.options) :
          \E n \in 1..Len(Offered(w)) :
              /\ Offered(w)[n].value = def.options[j].label
              /\ Offered(w)[n].text = def.options[j].label
              /\ OptionIdOf(Offered(w)[n]) \in {"", def.options[j].id}
    /\ \A n, m \in 1..Len(Offered(w)) :
          (n # m /\ OptionIdOf(Offered(w)[n]) # "")
              => OptionIdOf(Offered(w)[n]) # OptionIdOf(Offered(w)[m])

AddedRowsOf(e) == {k \in 1..Len(e) : e[k].id = AddedRowId}

\* C20: each row that addAnnotationField appended has its own placeholder
\* field identifier, so parseAnnotationFields on a valid editor holding k
\* such rows with pairwise distinct non-empty labels returns a mapping
\* with k distinct entries for them, one per row; addAnnotationField
\* issues no request.
C20_OneEntryPerAddedRow ==
    /\ fieldReqs = 0 /\ inflight = <<>>
    /\ parsed.kind = "schema" =>
          \A k \in AddedRowsOf(editor) :
              \E n \in 1..Len(parsed.fields) :
                  /\ parsed.fields[n].def.label = CollapseSpaces(editor[k].label)
                  /\ \A m \in AddedRowsOf(editor) \ {k} :
                        \E j \in 1..Len(parsed.fields) :
                            /\ j # n
                            /\ parsed.fields[j].def.label
                                   = CollapseSpaces(editor[m].label)

(***************************************************************************)
(* The options entry parseAnnotationFields returns: claim C21.             *)
(***************************************************************************)
\* the option inputs of a row hold pairwise distinct values, one of them
\* at least not empty
DistinctOptionValues(row) ==
    /\ \E j \in 1..Len(row.opts) : row.opts[j].val # ""
    /\ \A i, j \in 1..Len(row.opts) :
          i # j => row.opts[i].val # row.opts[j].val

\* the non-empty option inputs of a row in editor order, each as the
\* record of the input's id and its value
ExpectedOptions(row) ==
    LET filled == SelectSeq(row.opts, LAMBDA o : o.val # "")
    IN [j \in 1..Len(filled) |-> [id |-> filled[j].id, label |-> filled[j].val]]

\* C21: for a dropdown or checkbox field of a valid editor whose option
\* inputs hold pairwise distinct values, at least one of them not empty,
\* parseAnnotationFields returns a schema whose options entry for the
\* field is the list of exactly the non-empty values in editor order,
\* each as a single-key record keyed by the id of its option input.
C21_OptionsInEditorOrder ==
    (parsed # NotParsed /\ Failures(editor) = <<>>) =>
        \A k \in 1..Len(editor) :
            (editor[k].type \in OptionTypes /\ DistinctOptionValues(editor[k])) =>
                /\ parsed.kind = "schema"
                /\ \E n \in 1..Len(parsed.fields) :
                      /\ parsed.fields[n].id = FieldId(editor[k])
                      /\ parsed.fields[n].def.type = editor[k].type
                      /\ parsed.fields[n].def.options = ExpectedOptions(editor[k])

(***************************************************************************)
(* Retrying a failed save: claim C22.  ev.prevOutcome is the outcome the   *)
(* event before the last one delivered, "" when that was no response.      *)
(***************************************************************************)
\* the last event is a timer tick that came right after a failed save
TickAfterFailure ==
    ev.kind = "timer" /\ ev.prevOutcome \in {"rejected", "error"}

\* the request issued last carries what saveAnnotations collects now
CarriesCurrentValues ==
    /\ inflight # <<>>
    /\ inflight[Len(inflight)].anns = CollectAnnotations(variant, posts).anns

\* a failed response takes its request away, issues none, enables the
\* save control and leaves edits_made alone
FailureIssuesNothing ==
    Failed => /\ Len(inflight) = ev.pending - 1
              /\ ~ev.issued
              /\ ~disabled
              /\ edits_made = ev.hadEdits

\* C22 as stated: a failed save never issues a new request by itself;
\* after it, with no further user action, the save control stays enabled
\* and the edits-made flag stays set, so the next timer tick issues a new
\* save_annotations request carrying the current widget values.
C22_TickAfterFailureIssues ==
    /\ FailureIssuesNothing
    /\ Failed => edits_made
    /\ TickAfterFailure => (ev.issued /\ CarriesCurrentValues)

\* C22: a failed save never issues a new request by itself; it leaves the
\* save control enabled and the edits-made flag as it was, so the next
\* timer tick issues a new save_annotations request carrying the current
\* widget values exactly when an edit has happened since the page was
\* loaded, and no request otherwise.
C22_TickAfterFailureNeedsEdit ==
    /\ FailureIssuesNothing
    /\ TickAfterFailure =>
          /\ ~ev.wasDisabled
          /\ ev.issued <=> ev.hadEdits
          /\ ev.issued => CarriesCurrentValues

\* a timer tick right after a failed save has issued the retry
C22_Witness ==
    /\ TickAfterFailure /\ ev.issued /\ ev.hadEdits /\ CarriesCurrentValues
    /\ disabled

(***************************************************************************)
(* Edits and the disabled save control: claim C23.  unsaved holds the      *)
(* widgets whose last edit no successfully answered request has carried.   *)
(***************************************************************************)
\* C23: no edit is silently lost: in every reachable state in which the
\* save control is disabled and no save_annotations request is
\* outstanding, every widget's current value is the one a successfully
\* answered request carried, or its value at page load if it was never
\* edited.
C23_NoEditLost ==
    (disabled /\ inflight = <<>> /\ ~navigated) => unsaved = {}

(***************************************************************************)
(* Saving the widgets applyAnnotationFields created: claim C24.            *)
(***************************************************************************)
\* the widgets applyAnnotationFields built: their class is
\* post-annotation field-<id> <type>
CreatedWidgets(page) ==
    {w \in SeqRange(AllWidgets(page)) : Len(w.cls) = 3}

ItemOf(page, w) ==
    {page[i].id : i \in {j \in 1..Len(page) : w \in SeqRange(page[j].anns)}}

\* a click on the enabled save control, the page and the editor untouched
EnabledSaveClick ==
    /\ ev'.kind = "click" /\ ~disabled
    /\ UNCHANGED <<posts, editVars, applyVars>>

\* C24: for every widget that applyAnnotationFields created for a newly
\* added field, a later saveAnnotations completes its collection and
\* issues a save_annotations request that holds an annotation whose
\* field_id, type and item_id are that widget's field, type and item.
C24_CreatedWidgetsAreSaved ==
    [][(EnabledSaveClick /\ CreatedWidgets(posts) # {}) =>
         /\ Len(inflight') = Len(inflight) + 1
         /\ \A w \in CreatedWidgets(posts) :
               \E n \in 1..Len(inflight'[Len(inflight')].anns) :
                   LET a == inflight'[Len(inflight')].anns[n]
                   IN /\ a.field_id = StripPrefix(w.cls[2], "field-")
                      /\ a.type = w.cls[3]
                      /\ a.item_id.s \in ItemOf(posts, w)]_vars

(***************************************************************************)
(* Applying the schema the page already shows: claim C25.                  *)
(***************************************************************************)
\* every item's panel shows exactly the fields of the schema, with their
\* types, labels and options
Reflects(page, fields) ==
    \A i \in 1..Len(page) :
        /\ Len(page[i].anns) = Len(fields)
        /\ \A n \in 1..Len(fields) :
              \E k \in 1..Len(page[i].anns) :
                  LET w == page[i].anns[k]
                  IN /\ Matches(w, fields[n].id)
                     /\ WidgetType(w) = fields[n].def.type
                     /\ w.label = fields[n].def.label
                     /\ fields[n].def.type \in OptionTypes =>
                           OffersSchemaOptions(w, fields[n].def)

\* what the user has put into a widget: its text and the labels of the
\* options selected or checked
ValueOf(w) ==
    [val |-> w.val,
     on |-> {w.opts[n].text : n \in {m \in 1..Len(w.opts) : w.opts[m].sel}}]

C25_Step ==
    (/\ variant = "explorer" /\ fieldReqs' = fieldReqs + 1
     /\ Reflects(posts, parsed'.fields)) =>
        \A i \in 1..Len(posts) : \A k \in 1..Len(posts[i].anns) :
            \E m \in 1..Len(posts'[i].anns) :
                /\ posts'[i].anns[m].cls[2] = posts[i].anns[k].cls[2]
                /\ ValueOf(posts'[i].anns[m]) = ValueOf(posts[i].anns[k])

\* C25: applyAnnotationFields is idempotent on values: run with a valid
\* schema identical to the one the rendered widgets already reflect, it
\* leaves every item's widget value unchanged, for the widgets the server
\* rendered and for those an earlier applyAnnotationFields created.
C25_SameSchemaKeepsValues == [][C25_Step]_vars

(***************************************************************************)
(* The reload of part_000: claim C26.                                      *)
(***************************************************************************)
\* C26: in the variant of applyAnnotationFields that reloads the page, the
\* reload takes place only after the save_annotation_fields request for
\* the submitted schema has been answered, so the reloaded page is
\* rendered from the newly saved schema.
C26_ReloadAfterAnswer ==
    reloaded => (fieldReqs = 0 /\ applied.renderedFrom = "new")

(***************************************************************************)
(* saveAnnotationFields and the empty schema: claim C27.                   *)
(***************************************************************************)
\* C27: saveAnnotationFields returns without issuing a
\* save_annotation_fields request when the schema it is given has no
\* fields, as after every row was deleted in the editor and Apply was
\* clicked.
C27_EmptySchemaNotPosted ==
    (applied.kind = "schema" /\ parsed.kind = "schema" /\ parsed.fields = <<>>)
        => ~applied.posted

====
